---- MODULE Spec2Model ----
(***************************************************************************)
(* A model of the data scripts of RealGlobal (src/data-scripts).  Each     *)
(* script is a batch job of its own: read, transform, write, report.       *)
(* There is one specification per script; the scripts share the file       *)
(* system (files), the console and the process exit status.                *)
(***************************************************************************)
EXTENDS Integers, Sequences, FiniteSets, TLC

VARIABLES
    pc,             \* position of the running script
    files,          \* the file system: file name -> content (DOMAIN = existing files)
    console,        \* the lines printed so far (tags)
    exit_status,    \* the process exit status, NotExited while running
    geojson,        \* the document loaded by split_multipolygon / convert_coordinates
    new_features,   \* split_multipolygon: the features built so far
    new_geojson,    \* split_multipolygon: the document to write
    idx,            \* index of the next feature / source / row of the running loop
    qozs,           \* the rows of the zone table (load_qozs_csv, pd.read_csv)
    features,       \* create_qozs_geojson: the features built so far
    success_count,  \* create_qozs_geojson: the boundaries found so far
    tracts,         \* qozs_to_geojson_bulk: the rows of the tract table
    merged,         \* qozs_to_geojson_bulk: the rows of the join
    gdp_growth,     \* generate_economic_data: country -> latest GDP growth
    employment_rate,\* generate_economic_data: country -> latest unemployment rate
    countries       \* generate_economic_data: the country names of the map

vars == <<pc, files, console, exit_status, geojson, new_features, new_geojson, idx,
          qozs, features, success_count, tracts, merged,
          gdp_growth, employment_rate, countries>>

\* the state of the scripts that work on documents, and of those on tables
docVars == <<geojson, new_features, new_geojson>>
tableVars == <<qozs, features, success_count, tracts, merged>>
\* the state of generate_economic_data
econVars == <<gdp_growth, employment_rate, countries>>

(***************************************************************************)
(* Bounds of the model.                                                    *)
(***************************************************************************)
MaxFeatures == 2    \* features per input document
MaxParts == 2       \* polygons per MultiPolygon
MaxRows == 2        \* data rows of the zone table
MaxTracts == 2      \* rows of the tract table
MaxCountries == 2   \* features of the country map
MaxIndicatorRows == 2   \* data rows of a World Bank indicator table

NotExited == 0 - 1
None == <<>>

(***************************************************************************)
(* Python helpers.                                                         *)
(***************************************************************************)
\* dict.get(key, default)
Get(d, key, default) == IF key \in DOMAIN d THEN d[key] ELSE default

\* {**d, key: value}
With(d, key, value) ==
    [x \in DOMAIN d \cup {key} |-> IF x = key THEN value ELSE d[x]]

\* str() of an integer, as an f-string renders it
Str(n) == ToString(n)

(***************************************************************************)
(* Input documents.  Coordinates are pairs of integers; rings, polygons    *)
(* and features are sequences, as JSON arrays are.                         *)
(***************************************************************************)
RingA == << <<10, 20>>, <<10, 24>>, <<14, 24>>, <<14, 20>>, <<10, 20>> >>
RingB == << <<11, 21>>, <<11, 22>>, <<12, 22>>, <<11, 21>> >>
RingC == << <<30, 40>>, <<30, 44>>, <<34, 44>>, <<30, 40>> >>
RingOpen == << <<50, 60>>, <<50, 64>>, <<54, 64>> >>

\* the i-th polygon (a sequence of rings) of the test data, i >= 1
PolygonCoords(i) ==
    CASE i % 3 = 1 -> << RingA, RingB >>
      [] i % 3 = 2 -> << RingC >>
      [] OTHER     -> << RingOpen >>

GeometryKinds ==
    [type : {"MultiPolygon"}, n : 0..MaxParts]
        \cup [type : {"Polygon"}, n : 0..2]
        \cup [type : {"Point"}, n : {0}]

\* the geometry object of a kind
Geometry(kind) ==
    CASE kind.type = "MultiPolygon" ->
            [type |-> "MultiPolygon",
             coordinates |-> [i \in 1..kind.n |-> PolygonCoords(i)]]
      [] kind.type = "Polygon" ->
            [type |-> "Polygon",
             coordinates |-> IF kind.n = 0 THEN <<>> ELSE PolygonCoords(kind.n)]
      [] OTHER ->
            [type |-> "Point", coordinates |-> <<-122, 47>>]

\* a feature's id and properties: both present, both absent, or properties
\* that already carry the keys the split adds
MetaKinds == {"plain", "bare", "resplit"}

Feature(kind, meta) ==
    LET g == [type |-> "Feature", geometry |-> Geometry(kind)] IN
    CASE meta = "plain" ->
            With(With(g, "id", 7), "properties", [STATE |-> "WA", TRACT |-> 53033])
      [] meta = "resplit" ->
            With(With(g, "id", 12), "properties",
                 [STATE |-> "WA", polygon_index |-> 5, total_polygons |-> 9])
      [] OTHER -> g

FeatureLists ==
    UNION {[1..n -> GeometryKinds \X MetaKinds] : n \in 0..MaxFeatures}

Features(list) == [j \in 1..Len(list) |-> Feature(list[j][1], list[j][2])]

CrsOld == [type |-> "name", properties |-> [name |-> "EPSG:2926"]]
CrsWgs84 == [type |-> "name", properties |-> [name |-> "EPSG:4326"]]

\* the shapes of a document: with all members, without the optional ones,
\* without "crs", without "features"
DocKinds == {"named", "std", "nocrs", "nofeatures"}

Document(dk, crs, fs) ==
    LET base == [type |-> "FeatureCollection"] IN
    CASE dk = "named" ->
            With(With(With(base, "name", "Opportunity_Zones"), "crs", crs),
                 "features", fs)
      [] dk = "std" -> With(With(base, "crs", crs), "features", fs)
      [] dk = "nocrs" -> With(base, "features", fs)
      [] OTHER -> With(base, "crs", crs)

NoFiles == [f \in {} |-> None]

WriteFile(fs, name, content) == With(fs, name, content)

(***************************************************************************)
(* split_opportunity_zones.py                                              *)
(***************************************************************************)
SplitInput == "opportunity_zones_wgs84.geojson"
SplitOutput == "opportunity_zones_split.geojson"

\* (mutant) total_polygons counts the polygons seen so far, not all of them
NewFeatureRunningTotal(feature, i) ==
    LET multipolygon_coords == feature.geometry.coordinates IN
    [type |-> "Feature",
     id |-> (IF "id" \in DOMAIN feature THEN Str(feature.id) ELSE "unknown")
                \o "_" \o Str(i),
     geometry |-> [type |-> "Polygon", coordinates |-> multipolygon_coords[i + 1]],
     properties |->
        With(With(Get(feature, "properties", NoFiles), "polygon_index", i),
             "total_polygons", i + 1)]

\* the feature built for polygon i (zero-based) of a MultiPolygon feature
NewFeature(feature, i) ==
    LET multipolygon_coords == feature.geometry.coordinates IN
    [type |-> "Feature",
     id |-> (IF "id" \in DOMAIN feature THEN Str(feature.id) ELSE "unknown")
                \o "_" \o Str(i),
     geometry |-> [type |-> "Polygon", coordinates |-> multipolygon_coords[i + 1]],
     properties |->
        With(With(Get(feature, "properties", NoFiles), "polygon_index", i),
             "total_polygons", Len(multipolygon_coords))]

\* (mutant) the polygons of a MultiPolygon are emitted last to first
SplitFeaturePrepend(feature) ==
    IF feature.geometry.type = "MultiPolygon"
    THEN [p \in 1..Len(feature.geometry.coordinates) |->
            NewFeature(feature, Len(feature.geometry.coordinates) - p)]
    ELSE << feature >>

\* what one iteration of the loop over geojson['features'] appends
SplitFeature(feature) ==
    IF feature.geometry.type = "MultiPolygon"
    THEN [p \in 1..Len(feature.geometry.coordinates) |-> NewFeature(feature, p - 1)]
    ELSE << feature >>

\* new_features[0]['geometry']['coordinates'][0][0] raises
SampleRaises(fs) ==
    /\ Len(fs) > 0
    /\ \/ fs[1].geometry.type = "Point"
       \/ Len(fs[1].geometry.coordinates) = 0
       \/ Len(fs[1].geometry.coordinates[1]) = 0

InitSplit ==
    /\ pc = "split_start"
    /\ \/ files = NoFiles
       \/ \E list \in FeatureLists, dk \in DocKinds :
            files = WriteFile(NoFiles, SplitInput,
                              Document(dk, CrsWgs84, Features(list)))
    /\ console = <<>>
    /\ exit_status = NotExited
    /\ geojson = None
    /\ new_features = <<>>
    /\ new_geojson = None
    /\ idx = 1
    /\ qozs = <<>>
    /\ features = <<>>
    /\ success_count = 0
    /\ tracts = <<>>
    /\ merged = <<>>
    /\ gdp_growth = None
    /\ employment_rate = None
    /\ countries = <<>>

\* open() and json.load(); new_features = []
SplitLoad ==
    /\ pc = "split_start"
    /\ IF SplitInput \in DOMAIN files
       THEN /\ geojson' = files[SplitInput]
            /\ pc' = "split_loop"
       ELSE /\ geojson' = geojson
            /\ pc' = "split_except"
    /\ new_features' = <<>>
    /\ idx' = 1
    /\ UNCHANGED <<files, console, exit_status, new_geojson>>
    /\ UNCHANGED tableVars
    /\ UNCHANGED econVars

\* one iteration of: for feature in geojson['features']
SplitIterate ==
    /\ pc = "split_loop"
    /\ IF "features" \notin DOMAIN geojson
       THEN /\ pc' = "split_except"
            /\ UNCHANGED <<new_features, idx>>
       ELSE IF idx <= Len(geojson.features)
       THEN /\ new_features' = new_features \o SplitFeature(geojson.features[idx])
            /\ idx' = idx + 1
            /\ pc' = pc
       ELSE /\ pc' = "split_build"
            /\ UNCHANGED <<new_features, idx>>
    /\ UNCHANGED <<files, console, exit_status, geojson, new_geojson>>
    /\ UNCHANGED tableVars
    /\ UNCHANGED econVars

\* new_geojson = {...}: geojson['crs'] raises KeyError without a crs member
SplitBuild ==
    /\ pc = "split_build"
    /\ IF "crs" \in DOMAIN geojson
       THEN /\ new_geojson' = [type |-> "FeatureCollection",
                               crs |-> geojson.crs,
                               features |-> new_features]
            /\ pc' = "split_write"
       ELSE /\ new_geojson' = new_geojson
            /\ pc' = "split_except"
    /\ UNCHANGED <<files, console, exit_status, geojson, new_features, idx>>
    /\ UNCHANGED tableVars
    /\ UNCHANGED econVars

\* open(..., 'w') and json.dump(); open() may fail
SplitWrite ==
    /\ pc = "split_write"
    /\ \E writable \in BOOLEAN :
        IF writable
        THEN /\ files' = WriteFile(files, SplitOutput, new_geojson)
             /\ pc' = "split_report"
        ELSE /\ files' = files
             /\ pc' = "split_except"
    /\ UNCHANGED <<console, exit_status, geojson, new_features, new_geojson, idx>>
    /\ UNCHANGED tableVars
    /\ UNCHANGED econVars

\* the prints after the write; the sample print may raise
SplitReport ==
    /\ pc = "split_report"
    /\ IF SampleRaises(new_features)
       THEN /\ console' = console \o <<"split", "output", "original", "new", "sample_id">>
            /\ pc' = "split_except"
       ELSE /\ console' = console \o <<"split", "output", "original", "new">>
                            \o (IF Len(new_features) > 0
                                THEN <<"sample_id", "sample_coordinates">> ELSE <<>>)
            /\ pc' = "split_return"
    /\ UNCHANGED <<files, exit_status, geojson, new_features, new_geojson, idx>>
    /\ UNCHANGED tableVars
    /\ UNCHANGED econVars

\* except Exception: print, traceback.print_exc(); the script then ends
SplitHandler ==
    /\ pc = "split_except"
    /\ console' = console \o <<"error", "traceback">>
    /\ exit_status' = 0
    /\ pc' = "exit"
    /\ UNCHANGED <<files, geojson, new_features, new_geojson, idx>>
    /\ UNCHANGED tableVars
    /\ UNCHANGED econVars

\* split_multipolygon() returned: the script ends
SplitExit ==
    /\ pc = "split_return"
    /\ exit_status' = 0
    /\ pc' = "exit"
    /\ UNCHANGED <<files, console, geojson, new_features, new_geojson, idx>>
    /\ UNCHANGED tableVars
    /\ UNCHANGED econVars

NextSplit ==
    \/ SplitLoad
    \/ SplitIterate
    \/ SplitBuild
    \/ SplitWrite
    \/ SplitReport
    \/ SplitHandler
    \/ SplitExit

SpecSplit == InitSplit /\ [][NextSplit]_vars

(***************************************************************************)
(* Properties of split_opportunity_zones.py                                *)
(***************************************************************************)
\* the number of output features one input feature accounts for
PartsOf(f) ==
    IF f.geometry.type = "MultiPolygon" THEN Len(f.geometry.coordinates) ELSE 1

RECURSIVE PartsBefore(_, _)
\* the number of output features the features before the j-th account for
PartsBefore(fs, j) ==
    IF j <= 1 THEN 0 ELSE PartsBefore(fs, j - 1) + PartsOf(fs[j - 1])

\* every feature of the loaded document went through the loop
SplitLoopDone ==
    /\ pc \notin {"split_start", "split_loop"}
    /\ "features" \in DOMAIN geojson
    /\ idx > Len(geojson.features)

\* out holds, for MultiPolygon feature j of ins, its K polygons as K features
SplitPartsOf(ins, out, j) ==
    LET f == ins[j]
        K == Len(f.geometry.coordinates)
        orig == IF "properties" \in DOMAIN f THEN f.properties ELSE NoFiles
    IN  \A i \in 0..(K - 1) :
            LET nf == out[PartsBefore(ins, j) + i + 1] IN
            /\ nf.type = "Feature"
            /\ nf.geometry.type = "Polygon"
            /\ nf.geometry.coordinates = f.geometry.coordinates[i + 1]
            /\ nf.id = (IF "id" \in DOMAIN f THEN ToString(f.id) ELSE "unknown")
                            \o "_" \o ToString(i)
            /\ DOMAIN nf.properties
                    = DOMAIN orig \cup {"polygon_index", "total_polygons"}
            /\ \A key \in DOMAIN orig \ {"polygon_index", "total_polygons"} :
                    nf.properties[key] = orig[key]
            /\ nf.properties.polygon_index = i
            /\ nf.properties.total_polygons = K

SplitCorrect(ins, out) ==
    /\ Len(out) = PartsBefore(ins, Len(ins) + 1)
    /\ \A j \in 1..Len(ins) :
            ins[j].geometry.type = "MultiPolygon" => SplitPartsOf(ins, out, j)

\* C1: a MultiPolygon feature of K polygons yields exactly K features, the
\* i-th a Polygon with the i-th polygon's rings, id '{id}_{i}' ('unknown_{i}'
\* without an id) and the original properties plus polygon_index = i and
\* total_polygons = K; the output holds the sum of K over the MultiPolygon
\* features plus one feature per other feature.  It holds of new_features
\* once the loop is over and of the features of the file written.
C1_SplitCorrect ==
    /\ SplitLoopDone => SplitCorrect(geojson.features, new_features)
    /\ SplitOutput \in DOMAIN files =>
            SplitCorrect(files[SplitInput].features, files[SplitOutput].features)

\* a two-polygon feature with an id and properties was split and written
C1_Witness ==
    /\ SplitOutput \in DOMAIN files
    /\ \E j \in 1..Len(geojson.features) :
        /\ geojson.features[j].geometry.type = "MultiPolygon"
        /\ Len(geojson.features[j].geometry.coordinates) = 2
        /\ "id" \in DOMAIN geojson.features[j]
    /\ Len(files[SplitOutput].features) > Len(geojson.features)

\* C7: a feature that is no MultiPolygon is in the output unchanged, after
\* everything the features before it yielded and before everything the
\* features after it yield; the parts of one MultiPolygon feature are at
\* consecutive positions, in ascending polygon_index order.
C7_PassThroughAndOrder ==
    SplitLoopDone =>
        LET ins == geojson.features IN
        /\ Len(new_features) = PartsBefore(ins, Len(ins) + 1)
        /\ \A j \in 1..Len(ins) :
            LET first == PartsBefore(ins, j) + 1 IN
            IF ins[j].geometry.type = "MultiPolygon"
            THEN \A p \in 1..Len(ins[j].geometry.coordinates) :
                    /\ new_features[first + p - 1].properties.polygon_index = p - 1
                    /\ new_features[first + p - 1].geometry.coordinates
                            = ins[j].geometry.coordinates[p]
            ELSE new_features[first] = ins[j]

\* a pass-through feature, then a split MultiPolygon of two parts, or the
\* other way round
C7_Witness ==
    /\ SplitLoopDone
    /\ Len(geojson.features) = 2
    /\ \E j, k \in 1..2 :
        /\ j # k
        /\ geojson.features[j].geometry.type = "MultiPolygon"
        /\ Len(geojson.features[j].geometry.coordinates) = 2
        /\ geojson.features[k].geometry.type # "MultiPolygon"
    /\ Len(new_features) = 3

\* every feature of the input document is a Polygon
AllPolygons(doc) ==
    /\ "features" \in DOMAIN doc
    /\ Len(doc.features) > 0
    /\ \A j \in 1..Len(doc.features) : doc.features[j].geometry.type = "Polygon"

\* C8 (as claimed): run on a document whose features are all Polygons, the
\* split succeeds and writes a document equal to its input.
C8_IdempotentOnPolygons ==
    (pc = "exit" /\ SplitInput \in DOMAIN files /\ AllPolygons(files[SplitInput])) =>
        /\ SplitOutput \in DOMAIN files
        /\ files[SplitOutput] = files[SplitInput]

\* C9 (as claimed): the script exits with status 0 exactly when the transform
\* and the write completed, and with status 1, after an error message,
\* whenever an exception reached the top-level handler.
C9_ExitStatus ==
    pc = "exit" =>
        /\ (exit_status = 0) <=> (SplitOutput \in DOMAIN files)
        /\ (\E n \in 1..Len(console) : console[n] = "error") => exit_status = 1

(***************************************************************************)
(* convert_opportunity_zones.py                                            *)
(***************************************************************************)
ConvertInput == "Opportunity_Zones_-4513523067566272484.geojson"
ConvertOutput == "opportunity_zones_wgs84.geojson"

\* transformer.transform(x, y): the projection EPSG:2926 -> EPSG:4326, a pure
\* one-to-one function of the pair; here an affine map with no fixed point
Project(x, y) == << x - 122, y + 47 >>

\* coord[0], coord[1] can be read
PairOk(coord) == Len(coord) >= 2

\* lon, lat = transformer.transform(coord[0], coord[1]); [lon, lat]
TransformPair(coord) == Project(coord[1], coord[2])

RingFails(ring) == \E i \in 1..Len(ring) : ~PairOk(ring[i])
PolygonFails(polygon) == \E r \in 1..Len(polygon) : RingFails(polygon[r])
CoordinatesFail(coordinates) ==
    \E p \in 1..Len(coordinates) : PolygonFails(coordinates[p])

\* the index of the first pair of the ring that raises, 0 when none does
FirstBadPair(ring) ==
    IF RingFails(ring)
    THEN CHOOSE i \in 1..Len(ring) :
            ~PairOk(ring[i]) /\ \A k \in 1..(i - 1) : PairOk(ring[k])
    ELSE 0

\* the index of the first ring of the polygon that raises, 0 when none does
FirstBadRing(polygon) ==
    IF PolygonFails(polygon)
    THEN CHOOSE r \in 1..Len(polygon) :
            RingFails(polygon[r]) /\ \A k \in 1..(r - 1) : ~RingFails(polygon[k])
    ELSE 0

\* the index of the first polygon that raises, 0 when none does
FirstBadPolygon(coordinates) ==
    IF CoordinatesFail(coordinates)
    THEN CHOOSE p \in 1..Len(coordinates) :
            /\ PolygonFails(coordinates[p])
            /\ \A k \in 1..(p - 1) : ~PolygonFails(coordinates[k])
    ELSE 0

\* (mutant) the loop over the ring stops one pair short
ConvertRingShort(ring) ==
    LET bad == FirstBadPair(ring) IN
    [i \in 1..Len(ring) |->
        IF (bad = 0 \/ i < bad) /\ i < Len(ring)
        THEN TransformPair(ring[i]) ELSE ring[i]]

\* for i, coord in enumerate(ring): ring[i] = [lon, lat]. The pairs before
\* the first one that raises are replaced, the others are left.
ConvertRing(ring) ==
    LET bad == FirstBadPair(ring) IN
    [i \in 1..Len(ring) |->
        IF bad = 0 \/ i < bad THEN TransformPair(ring[i]) ELSE ring[i]]

\* for ring in polygon
ConvertPolygon(polygon) ==
    LET bad == FirstBadRing(polygon) IN
    [r \in 1..Len(polygon) |->
        IF bad = 0 \/ r <= bad THEN ConvertRing(polygon[r]) ELSE polygon[r]]

\* for polygon in feature['geometry']['coordinates']
ConvertCoordinates(coordinates) ==
    LET bad == FirstBadPolygon(coordinates) IN
    [p \in 1..Len(coordinates) |->
        IF bad = 0 \/ p <= bad THEN ConvertPolygon(coordinates[p])
        ELSE coordinates[p]]

\* the loop body: only a MultiPolygon feature is converted
ConvertFeature(feature) ==
    IF feature.geometry.type = "MultiPolygon"
    THEN [feature EXCEPT !.geometry.coordinates = ConvertCoordinates(@)]
    ELSE feature

\* the loop body raises (IndexError on coord[1])
FeatureFails(feature) ==
    /\ feature.geometry.type = "MultiPolygon"
    /\ CoordinatesFail(feature.geometry.coordinates)

\* geojson['features'][0]['geometry']['coordinates'][0][0][0] raises
ConvertSampleRaises(fs) ==
    /\ Len(fs) > 0
    /\ LET g == fs[1].geometry IN
       \/ g.type = "Point"
       \/ Len(g.coordinates) = 0
       \/ Len(g.coordinates[1]) = 0
       \/ Len(g.coordinates[1][1]) = 0

\* a defect of the input data: one coordinate pair with one component
\* ("short") or with three ("long")
Defects == {"none", "short", "long"}

DefectPair(defect) == IF defect = "short" THEN << 77 >> ELSE << 10, 24, 5 >>

\* ring with its second pair replaced
DefectRing(ring, defect) ==
    [i \in 1..Len(ring) |-> IF i = 2 THEN DefectPair(defect) ELSE ring[i]]

\* polygon with the defect in its last ring
DefectPolygon(polygon, defect) ==
    [r \in 1..Len(polygon) |->
        IF r = Len(polygon) THEN DefectRing(polygon[r], defect) ELSE polygon[r]]

ConvertKinds ==
    {k \in [type : {"MultiPolygon", "Polygon", "Point"}, n : 0..MaxParts,
            defect : Defects] :
        /\ k.type = "Point" => k.n = 0
        /\ k.type = "Polygon" => k.n <= 2
        /\ k.n = 0 => k.defect = "none"}

\* the geometry of a kind: the defect sits in the last polygon
ConvertGeometry(kind) ==
    LET g == Geometry([type |-> kind.type, n |-> kind.n]) IN
    IF kind.defect = "none" THEN g
    ELSE IF kind.type = "Polygon"
    THEN [g EXCEPT !.coordinates = DefectPolygon(@, kind.defect)]
    ELSE [g EXCEPT !.coordinates[kind.n] = DefectPolygon(@, kind.defect)]

ConvertFeatureLists == UNION {[1..n -> ConvertKinds] : n \in 0..MaxFeatures}

ConvertFeatures(list) ==
    [j \in 1..Len(list) |->
        [type |-> "Feature", id |-> j, geometry |-> ConvertGeometry(list[j]),
         properties |-> [OBJECTID |-> j]]]

InitConvert ==
    /\ pc = "convert_start"
    /\ \/ files = NoFiles
       \/ \E list \in ConvertFeatureLists, dk \in DocKinds :
            files = WriteFile(NoFiles, ConvertInput,
                              Document(dk, CrsOld, ConvertFeatures(list)))
    /\ console = <<>>
    /\ exit_status = NotExited
    /\ geojson = None
    /\ new_features = <<>>
    /\ new_geojson = None
    /\ idx = 1
    /\ qozs = <<>>
    /\ features = <<>>
    /\ success_count = 0
    /\ tracts = <<>>
    /\ merged = <<>>
    /\ gdp_growth = None
    /\ employment_rate = None
    /\ countries = <<>>

\* open() and json.load(); Transformer.from_crs()
ConvertLoad ==
    /\ pc = "convert_start"
    /\ IF ConvertInput \in DOMAIN files
       THEN /\ geojson' = files[ConvertInput]
            /\ pc' = "convert_loop"
       ELSE /\ geojson' = geojson
            /\ pc' = "convert_except"
    /\ idx' = 1
    /\ UNCHANGED <<files, console, exit_status, new_features, new_geojson>>
    /\ UNCHANGED tableVars
    /\ UNCHANGED econVars

\* one iteration of: for feature in geojson['features']
ConvertIterate ==
    /\ pc = "convert_loop"
    /\ IF "features" \notin DOMAIN geojson
       THEN /\ pc' = "convert_except"
            /\ UNCHANGED <<geojson, idx>>
       ELSE IF idx <= Len(geojson.features)
       THEN /\ geojson' = [geojson EXCEPT !.features[idx] = ConvertFeature(@)]
            /\ IF FeatureFails(geojson.features[idx])
               THEN pc' = "convert_except" /\ idx' = idx
               ELSE pc' = pc /\ idx' = idx + 1
       ELSE /\ pc' = "convert_crs"
            /\ UNCHANGED <<geojson, idx>>
    /\ UNCHANGED <<files, console, exit_status, new_features, new_geojson>>
    /\ UNCHANGED tableVars
    /\ UNCHANGED econVars

\* geojson['crs'] = {...}
ConvertSetCrs ==
    /\ pc = "convert_crs"
    /\ geojson' = With(geojson, "crs", CrsWgs84)
    /\ pc' = "convert_write"
    /\ UNCHANGED <<files, console, exit_status, new_features, new_geojson, idx>>
    /\ UNCHANGED tableVars
    /\ UNCHANGED econVars

\* open(..., 'w') and json.dump(); open() may fail
ConvertWrite ==
    /\ pc = "convert_write"
    /\ \E writable \in BOOLEAN :
        IF writable
        THEN /\ files' = WriteFile(files, ConvertOutput, geojson)
             /\ pc' = "convert_report"
        ELSE /\ files' = files
             /\ pc' = "convert_except"
    /\ UNCHANGED <<console, exit_status, geojson, new_features, new_geojson, idx>>
    /\ UNCHANGED tableVars
    /\ UNCHANGED econVars

\* the prints after the write; the sample print may raise
ConvertReport ==
    /\ pc = "convert_report"
    /\ IF ConvertSampleRaises(geojson.features)
       THEN /\ console' = console \o <<"converted", "output">>
            /\ pc' = "convert_except"
       ELSE /\ console' = console \o <<"converted", "output">>
                            \o (IF Len(geojson.features) > 0
                                THEN <<"sample_coordinates">> ELSE <<>>)
            /\ pc' = "convert_return"
    /\ UNCHANGED <<files, exit_status, geojson, new_features, new_geojson, idx>>
    /\ UNCHANGED tableVars
    /\ UNCHANGED econVars

\* except Exception: print the error and the hint; sys.exit(1)
ConvertHandler ==
    /\ pc = "convert_except"
    /\ console' = console \o <<"error", "hint">>
    /\ exit_status' = 1
    /\ pc' = "exit"
    /\ UNCHANGED <<files, geojson, new_features, new_geojson, idx>>
    /\ UNCHANGED tableVars
    /\ UNCHANGED econVars

\* convert_coordinates() returned: the script ends
ConvertExit ==
    /\ pc = "convert_return"
    /\ exit_status' = 0
    /\ pc' = "exit"
    /\ UNCHANGED <<files, console, geojson, new_features, new_geojson, idx>>
    /\ UNCHANGED tableVars
    /\ UNCHANGED econVars

NextConvert ==
    \/ ConvertLoad
    \/ ConvertIterate
    \/ ConvertSetCrs
    \/ ConvertWrite
    \/ ConvertReport
    \/ ConvertHandler
    \/ ConvertExit

SpecConvert == InitConvert /\ [][NextConvert]_vars

(***************************************************************************)
(* Properties of convert_opportunity_zones.py                              *)
(***************************************************************************)
\* the rings of a feature, whatever its geometry type, as one sequence
RECURSIVE Concat(_)
Concat(ss) == IF Len(ss) = 0 THEN <<>> ELSE Head(ss) \o Concat(Tail(ss))

RingsOf(feature) ==
    CASE feature.geometry.type = "MultiPolygon" -> Concat(feature.geometry.coordinates)
      [] feature.geometry.type = "Polygon" -> feature.geometry.coordinates
      [] OTHER -> <<>>

\* convert_coordinates wrote its output and the output names EPSG:4326
ConvertCompleted ==
    /\ ConvertOutput \in DOMAIN files
    /\ files[ConvertOutput].crs.properties.name = "EPSG:4326"

\* C2 (as claimed): once the operation completed and the metadata names
\* EPSG:4326, every coordinate pair of every ring of every feature, whatever
\* the geometry type, is the projection of the input pair.
C2_EveryCoordinateProjected ==
    ConvertCompleted =>
        \A j \in 1..Len(files[ConvertInput].features) :
            LET before == RingsOf(files[ConvertInput].features[j])
                after == RingsOf(files[ConvertOutput].features[j])
            IN  \A r \in 1..Len(before) : \A c \in 1..Len(before[r]) :
                    after[r][c] = << before[r][c][1] - 122, before[r][c][2] + 47 >>

IsClosed(ring) == Len(ring) > 0 /\ ring[1] = ring[Len(ring)]

\* the same features in the same order, each with as many polygons, rings
\* per polygon and pairs per ring
SameShape(ins, outs) ==
    /\ Len(outs) = Len(ins)
    /\ \A j \in 1..Len(ins) :
        /\ outs[j].id = ins[j].id
        /\ outs[j].properties = ins[j].properties
        /\ outs[j].geometry.type = ins[j].geometry.type
        /\ Len(outs[j].geometry.coordinates) = Len(ins[j].geometry.coordinates)
        /\ ins[j].geometry.type = "MultiPolygon" =>
                \A p \in 1..Len(ins[j].geometry.coordinates) :
                    Len(outs[j].geometry.coordinates[p])
                        = Len(ins[j].geometry.coordinates[p])
        /\ Len(RingsOf(outs[j])) = Len(RingsOf(ins[j]))
        /\ \A r \in 1..Len(RingsOf(ins[j])) :
                Len(RingsOf(outs[j])[r]) = Len(RingsOf(ins[j])[r])

ClosurePreserved(ins, outs) ==
    \A j \in 1..Len(ins) : \A r \in 1..Len(RingsOf(ins[j])) :
        IsClosed(RingsOf(ins[j])[r]) => IsClosed(RingsOf(outs[j])[r])

\* C3: the document written has the features of the input in the same order,
\* each with the same number of polygons, of rings per polygon and of pairs
\* per ring, and every ring closed in the input is closed in the output.
C3_ShapePreserved ==
    ConvertOutput \in DOMAIN files =>
        /\ SameShape(files[ConvertInput].features, files[ConvertOutput].features)
        /\ ClosurePreserved(files[ConvertInput].features,
                            files[ConvertOutput].features)

\* a document with a MultiPolygon of two polygons, closed rings among them,
\* was reprojected and written
C3_Witness ==
    /\ ConvertOutput \in DOMAIN files
    /\ \E j \in 1..Len(files[ConvertInput].features) :
        LET f == files[ConvertInput].features[j]
            g == files[ConvertOutput].features[j]
        IN  /\ f.geometry.type = "MultiPolygon"
            /\ Len(f.geometry.coordinates) = 2
            /\ IsClosed(f.geometry.coordinates[1][1])
            /\ g.geometry.coordinates[1][1] # f.geometry.coordinates[1][1]
            /\ IsClosed(g.geometry.coordinates[1][1])

\* a pair that has not exactly two components
HasMalformedPair(doc) ==
    /\ "features" \in DOMAIN doc
    /\ \E j \in 1..Len(doc.features) :
        \E r \in 1..Len(RingsOf(doc.features[j])) :
            \E c \in 1..Len(RingsOf(doc.features[j])[r]) :
                Len(RingsOf(doc.features[j])[r][c]) # 2

\* C4 (as claimed): with a malformed coordinate pair anywhere in the
\* document the operation fails and the output file is never written.
C4_AllOrNothing ==
    (ConvertInput \in DOMAIN files /\ HasMalformedPair(files[ConvertInput])) =>
        /\ ConvertOutput \notin DOMAIN files
        /\ pc = "exit" => exit_status = 1

(***************************************************************************)
(* download_opportunity_zones.py                                           *)
(***************************************************************************)
CompleteFile == "opportunity_zones_complete.geojson"
SampleFile == "opportunity_zones_sample.geojson"

NumSources == 3         \* len(sources)
MinFeatures == 100      \* a dataset needs more features than this
SampleSize == 50        \* range(50)

\* what a source may answer: no answer (requests.get raises), a status other
\* than 200, a body that is no JSON, a JSON object without "features", one
\* with too few features, a full dataset, and a full dataset whose first
\* feature is null
ResponseKinds ==
    {"timeout", "http_error", "bad_json", "no_features", "few", "ok", "odd"}

JsonNull == [json |-> "null"]

\* v has a .get method: it is a JSON object
IsMapping(v) == "json" \notin DOMAIN v

RequestRaises(kind) == kind = "timeout"
StatusCode(kind) == IF kind = "http_error" THEN 404 ELSE 200
JsonRaises(kind) == kind = "bad_json"

\* response.json()
ResponseData(kind) ==
    LET feature(i) == [type |-> "Feature", id |-> i, properties |-> [OBJECTID |-> i]]
    IN CASE kind = "no_features" -> [type |-> "FeatureCollection"]
         [] kind = "few" ->
                [type |-> "FeatureCollection",
                 features |-> [i \in 1..MinFeatures |-> feature(i)]]
         [] kind = "odd" ->
                [type |-> "FeatureCollection",
                 features |-> [i \in 1..(MinFeatures + 1) |->
                                    IF i = 1 THEN JsonNull ELSE feature(i)]]
         [] OTHER ->
                [type |-> "FeatureCollection",
                 features |-> [i \in 1..(MinFeatures + 1) |-> feature(i)]]

\* 'features' in data and len(data['features']) > 100
DataAccepted(data) ==
    "features" \in DOMAIN data /\ Len(data.features) > MinFeatures

\* f"{n:04d}"
ZeroPad4(n) ==
    LET str == ToString(n) IN
    CASE Len(str) = 1 -> "000" \o str
      [] Len(str) = 2 -> "00" \o str
      [] Len(str) = 3 -> "0" \o str
      [] OTHER -> str

\* the zone i (zero-based) of the sample; coordinates in thousandths of a degree
SampleFeature(i) ==
    LET x == -122300 + i * 10
        y == 47600 + i * 10
    IN [type |-> "Feature",
        id |-> i + 1,
        geometry |->
            [type |-> "Polygon",
             coordinates |-> << << <<x, y>>, <<x, y + 5>>, <<x + 5, y + 5>>,
                                   <<x + 5, y>>, <<x, y>> >> >>],
        properties |->
            ("OBJECTID" :> i + 1) @@ ("ZONE_ID" :> "OZ_" \o ZeroPad4(i + 1))
                @@ ("STATE" :> "WA") @@ ("CITY" :> "Seattle")
                @@ ("DESCRIPTION" :> "Opportunity Zone " \o ToString(i + 1))]

SampleGeojson ==
    [type |-> "FeatureCollection",
     features |-> [n \in 1..SampleSize |-> SampleFeature(n - 1)]]

Trying(i) == "trying_" \o ToString(i)

InitDownload ==
    /\ pc = "download_loop"
    /\ files = NoFiles
    /\ console = <<>>
    /\ exit_status = NotExited
    /\ geojson = None
    /\ new_features = <<>>
    /\ new_geojson = None
    /\ idx = 1
    /\ qozs = <<>>
    /\ features = <<>>
    /\ success_count = 0
    /\ tracts = <<>>
    /\ merged = <<>>
    /\ gdp_growth = None
    /\ employment_rate = None
    /\ countries = <<>>

\* one iteration of: for i, url in enumerate(sources), with its try/except
DownloadTry ==
    /\ pc = "download_loop"
    /\ idx <= NumSources
    /\ \E kind \in ResponseKinds, writable \in BOOLEAN :
        LET data == ResponseData(kind)
            tried == console \o << Trying(idx) >>
        IN  IF RequestRaises(kind) \/ (StatusCode(kind) = 200 /\ JsonRaises(kind))
            THEN /\ console' = tried \o <<"error">>
                 /\ UNCHANGED files /\ idx' = idx + 1 /\ pc' = pc
            ELSE IF StatusCode(kind) # 200
            THEN /\ console' = tried \o <<"http_error">>
                 /\ UNCHANGED files /\ idx' = idx + 1 /\ pc' = pc
            ELSE IF ~DataAccepted(data)
            THEN /\ console' = tried \o <<"invalid">>
                 /\ UNCHANGED files /\ idx' = idx + 1 /\ pc' = pc
            ELSE IF ~writable
            THEN /\ console' = tried \o <<"success", "error">>
                 /\ UNCHANGED files /\ idx' = idx + 1 /\ pc' = pc
            ELSE /\ files' = WriteFile(files, CompleteFile, data)
                 /\ IF IsMapping(data.features[1])
                    THEN /\ console' = tried \o <<"success", "saved", "total",
                                                  "sample_properties">>
                         /\ idx' = idx /\ pc' = "download_true"
                    ELSE /\ console' = tried \o <<"success", "saved", "total",
                                                  "error">>
                         /\ idx' = idx + 1 /\ pc' = pc
    /\ UNCHANGED <<exit_status>>
    /\ UNCHANGED docVars
    /\ UNCHANGED tableVars
    /\ UNCHANGED econVars

\* the loop ran out of sources: return False
DownloadAllFailed ==
    /\ pc = "download_loop"
    /\ idx > NumSources
    /\ console' = console \o <<"all_failed">>
    /\ pc' = "download_false"
    /\ UNCHANGED <<files, exit_status, idx>>
    /\ UNCHANGED docVars
    /\ UNCHANGED tableVars
    /\ UNCHANGED econVars

\* download_opportunity_zones() returned True: the script ends
DownloadExit ==
    /\ pc = "download_true"
    /\ exit_status' = 0
    /\ pc' = "exit"
    /\ UNCHANGED <<files, console, idx>>
    /\ UNCHANGED docVars
    /\ UNCHANGED tableVars
    /\ UNCHANGED econVars

\* create_sample_multiple_zones(); nothing catches a failing open()
CreateSample ==
    /\ pc = "download_false"
    /\ \E writable \in BOOLEAN :
        IF writable
        THEN /\ files' = WriteFile(files, SampleFile, SampleGeojson)
             /\ console' = console \o <<"creating_sample", "created", "saved">>
             /\ exit_status' = 0
        ELSE /\ files' = files
             /\ console' = console \o <<"creating_sample", "traceback">>
             /\ exit_status' = 1
    /\ pc' = "exit"
    /\ UNCHANGED <<idx>>
    /\ UNCHANGED docVars
    /\ UNCHANGED tableVars
    /\ UNCHANGED econVars

NextDownload ==
    \/ DownloadTry
    \/ DownloadAllFailed
    \/ DownloadExit
    \/ CreateSample

SpecDownload == InitDownload /\ [][NextDownload]_vars

(***************************************************************************)
(* Properties of download_opportunity_zones.py                             *)
(***************************************************************************)
TryingLines == {Trying(i) : i \in 1..NumSources}

\* C5 (as claimed): the sources are tried in list order; once a source
\* succeeded the dataset is saved once and no later source is contacted; the
\* sample is created if and only if every source failed, so that a run ends
\* with exactly one of the two output files written and status 0.
C5_OrderedFallback ==
    /\ \A m, n \in 1..Len(console) :
        (m < n /\ console[m] \in TryingLines /\ console[n] \in TryingLines) =>
            \E i \in 1..(NumSources - 1) :
                console[m] = Trying(i) /\ console[n] \in {Trying(k) : k \in (i+1)..NumSources}
    /\ \A m, n \in 1..Len(console) :
        (m < n /\ console[m] = "saved") => console[n] \notin TryingLines
    /\ pc = "exit" =>
        /\ exit_status = 0
        /\ (CompleteFile \in DOMAIN files) # (SampleFile \in DOMAIN files)

(***************************************************************************)
(* convert_qozs_to_geojson.py                                              *)
(***************************************************************************)
QozsCsv == "designated-qozs.12.14.18.csv"
ProcessLimit == 100     \* qozs[:100]

valid_states ==
    {"Alabama", "Alaska", "Arizona", "Arkansas", "California", "Colorado",
     "Connecticut", "Delaware", "Florida", "Georgia", "Hawaii", "Idaho",
     "Illinois", "Indiana", "Iowa", "Kansas", "Kentucky", "Louisiana", "Maine",
     "Maryland", "Massachusetts", "Michigan", "Minnesota", "Mississippi",
     "Missouri", "Montana", "Nebraska", "Nevada", "New Hampshire", "New Jersey",
     "New Mexico", "New York", "North Carolina", "North Dakota", "Ohio",
     "Oklahoma", "Oregon", "Pennsylvania", "Rhode Island", "South Carolina",
     "South Dakota", "Tennessee", "Texas", "Utah", "Vermont", "Virginia",
     "Washington", "West Virginia", "Wisconsin", "Wyoming"}

\* tract numbers, as the digits written in the table
TractAL == <<0, 1, 0, 0, 1, 0, 2, 0, 1, 0, 0>>
TractALUnpadded == <<1, 0, 0, 1, 0, 2, 0, 1, 0, 0>>
TractWA == <<5, 3, 0, 3, 3, 0, 0, 0, 1, 0, 0>>
TractPR == <<7, 2, 0, 0, 1, 9, 5, 6, 3, 0, 0>>
TractAK == <<0, 2, 0, 2, 0, 0, 0, 0, 1, 0, 0>>

\* the rows a table is made of: a title line, a blank line, rows of a state
\* and a row of a territory
RowKinds == {"title", "blank", "alabama", "washington", "puerto_rico"}

CsvRow(kind, n) ==
    CASE kind = "title" -> << "Designated Qualified Opportunity Zones" >>
      [] kind = "blank" -> << >>
      [] kind = "alabama" ->
            << "Alabama", "Autauga " \o ToString(n), TractALUnpadded,
               "Low-Income Community", "2011-2015", "" >>
      [] kind = "alabama_padded" ->
            << "Alabama", "Baldwin " \o ToString(n), TractAL,
               "Low-Income Community", "2011-2015" >>
      [] kind = "washington" ->
            << "Washington", "King " \o ToString(n), TractWA,
               "Non-LIC Contiguous", "2012-2016" >>
      [] OTHER ->
            << "Puerto Rico", "Adjuntas " \o ToString(n), TractPR,
               "Low-Income Community", "2011-2015" >>

CsvKindLists == UNION {[1..n -> RowKinds] : n \in 0..MaxRows}

CsvRows(list) == [n \in 1..Len(list) |-> CsvRow(list[n], n)]

\* len(row) >= 5 and row[0] and row[0] in valid_states
RowKept(row) == Len(row) >= 5 /\ row[1] # "" /\ row[1] \in valid_states

\* for row in reader: the rows that pass the test, in order
RECURSIVE SelectRows(_)
SelectRows(rows) ==
    IF Len(rows) = 0 THEN <<>>
    ELSE (IF RowKept(Head(rows)) THEN << Head(rows) >> ELSE <<>>)
            \o SelectRows(Tail(rows))

\* load_qozs_csv(): the kept rows, their first five columns named
LoadQozs(rows) ==
    LET kept == SelectRows(rows) IN
    [n \in 1..Len(kept) |->
        [state |-> kept[n][1], county |-> kept[n][2], tract_id |-> kept[n][3],
         zone_type |-> kept[n][4], year_range |-> kept[n][5]]]

\* what the boundary service may answer for a row: no answer, a status other
\* than 200, a body that is no JSON, an empty feature list, a feature with a
\* geometry, a feature without one
LookupKinds == {"timeout", "http_error", "bad_json", "empty", "found", "no_geometry"}

\* response.json() of the boundary service
LookupData(kind) ==
    CASE kind = "found" ->
            [type |-> "FeatureCollection",
             features |-> << [type |-> "Feature",
                              geometry |-> [type |-> "Polygon",
                                            coordinates |-> << RingC >>],
                              properties |-> [TRACT |-> "found"]] >>]
      [] kind = "no_geometry" ->
            [type |-> "FeatureCollection",
             features |-> << [type |-> "Feature",
                              properties |-> [TRACT |-> "found"]] >>]
      [] OTHER -> [type |-> "FeatureCollection", features |-> << >>]

\* get_census_tract_boundary() returns a feature, not None
BoundaryFound(kind) ==
    /\ ~RequestRaises(kind)
    /\ StatusCode(kind) = 200
    /\ ~JsonRaises(kind)
    /\ Len(Get(LookupData(kind), "features", <<>>)) > 0

\* [-122.3, 47.6], in tenths of a degree
DefaultCoordinates == << -1223, 476 >>

QozProperties(n, qoz, suffix) ==
    ("OBJECTID" :> n) @@ ("STATE" :> qoz.state) @@ ("COUNTY" :> qoz.county)
        @@ ("TRACT_ID" :> qoz.tract_id) @@ ("ZONE_TYPE" :> qoz.zone_type)
        @@ ("YEAR_RANGE" :> qoz.year_range)
        @@ ("DESCRIPTION" :> "Opportunity Zone in " \o qoz.county \o ", "
                                \o qoz.state \o suffix)

\* the feature of row n (one-based) when a boundary was found
BoundaryFeature(n, qoz, boundary) ==
    [type |-> "Feature", id |-> n, geometry |-> boundary.geometry,
     properties |-> QozProperties(n, qoz, "")]

\* the fallback feature of row n
PointFeature(n, qoz) ==
    [type |-> "Feature", id |-> n,
     geometry |-> [type |-> "Point", coordinates |-> DefaultCoordinates],
     properties |-> QozProperties(n, qoz, " (point only)")]

\* qozs[:100]
TestZones(rows) ==
    SubSeq(rows, 1, IF Len(rows) < ProcessLimit THEN Len(rows) ELSE ProcessLimit)

InitQozs ==
    /\ pc = "qozs_start"
    /\ \/ files = NoFiles
       \/ \E list \in CsvKindLists :
            files = WriteFile(NoFiles, QozsCsv, CsvRows(list))
    /\ console = <<>>
    /\ exit_status = NotExited
    /\ geojson = None
    /\ new_features = <<>>
    /\ new_geojson = None
    /\ idx = 1
    /\ qozs = <<>>
    /\ features = <<>>
    /\ success_count = 0
    /\ tracts = <<>>
    /\ merged = <<>>
    /\ gdp_growth = None
    /\ employment_rate = None
    /\ countries = <<>>

\* qozs = load_qozs_csv(); features = []; success_count = 0
QozsLoad ==
    /\ pc = "qozs_start"
    /\ IF QozsCsv \in DOMAIN files
       THEN /\ qozs' = LoadQozs(files[QozsCsv])
            /\ console' = console \o <<"loading", "found", "processing">>
            /\ pc' = "qozs_loop"
            /\ exit_status' = exit_status
       ELSE /\ qozs' = qozs
            /\ console' = console \o <<"loading", "Traceback: FileNotFoundError">>
            /\ pc' = "exit"
            /\ exit_status' = 1
    /\ features' = <<>>
    /\ success_count' = 0
    /\ idx' = 1
    /\ UNCHANGED <<files, tracts, merged>>
    /\ UNCHANGED docVars
    /\ UNCHANGED econVars

\* one iteration of: for i, qoz in enumerate(test_zones)
QozsProcess ==
    /\ pc = "qozs_loop"
    /\ idx <= Len(TestZones(qozs))
    /\ \E kind \in LookupKinds :
        LET qoz == TestZones(qozs)[idx]
            lookup == IF RequestRaises(kind) \/ (StatusCode(kind) = 200 /\ JsonRaises(kind))
                      THEN <<"lookup_error">> ELSE <<>>
        IN  IF BoundaryFound(kind)
            THEN LET boundary == LookupData(kind).features[1] IN
                 IF "geometry" \in DOMAIN boundary
                 THEN /\ features' = Append(features, BoundaryFeature(idx, qoz, boundary))
                      /\ success_count' = success_count + 1
                      /\ console' = console \o <<"processing_row">>
                      /\ idx' = idx + 1
                      /\ UNCHANGED <<pc, exit_status>>
                 ELSE /\ console' = console \o <<"processing_row", "Traceback: KeyError">>
                      /\ pc' = "exit"
                      /\ exit_status' = 1
                      /\ UNCHANGED <<features, success_count, idx>>
            ELSE /\ features' = Append(features, PointFeature(idx, qoz))
                 /\ console' = console \o <<"processing_row">> \o lookup
                 /\ idx' = idx + 1
                 /\ UNCHANGED <<success_count, pc, exit_status>>
    /\ UNCHANGED <<files, qozs, tracts, merged>>
    /\ UNCHANGED docVars
    /\ UNCHANGED econVars

\* the loop is over: write the file, print the counts, return
QozsSave ==
    /\ pc = "qozs_loop"
    /\ idx > Len(TestZones(qozs))
    /\ files' = WriteFile(files, CompleteFile,
                          [type |-> "FeatureCollection", features |-> features])
    /\ console' = console \o << "created_" \o ToString(Len(features)), "saved",
                                "boundaries_" \o ToString(success_count),
                                "total_" \o ToString(Len(qozs)) >>
    /\ pc' = "exit"
    /\ exit_status' = 0
    /\ UNCHANGED <<idx, qozs, features, success_count, tracts, merged>>
    /\ UNCHANGED docVars
    /\ UNCHANGED econVars

NextQozs ==
    \/ QozsLoad
    \/ QozsProcess
    \/ QozsSave

SpecQozs == InitQozs /\ [][NextQozs]_vars

(***************************************************************************)
(* Properties of convert_qozs_to_geojson.py                                *)
(***************************************************************************)
Printed(line) == \E n \in 1..Len(console) : console[n] = line

\* C6 (as claimed): no boundary lookup ends the script; every processed row
\* has exactly one feature in the file written, in row order and with the
\* row's properties; the counts of successes and of failures are both
\* reported and add up to the number of processed rows.
C6_LookupFailureNonFatal ==
    (/\ pc = "exit"
     /\ QozsCsv \in DOMAIN files
     /\ Len(LoadQozs(files[QozsCsv])) > 0) =>
        LET rows == TestZones(LoadQozs(files[QozsCsv])) IN
        /\ exit_status = 0
        /\ CompleteFile \in DOMAIN files
        /\ Len(files[CompleteFile].features) = Len(rows)
        /\ \A n \in 1..Len(rows) :
            /\ files[CompleteFile].features[n].properties["COUNTY"] = rows[n].county
            /\ files[CompleteFile].features[n].properties["TRACT_ID"] = rows[n].tract_id
        /\ \E ok, failed \in 0..Len(rows) :
            /\ ok + failed = Len(rows)
            /\ Printed("boundaries_" \o ToString(ok))
            /\ Printed("failures_" \o ToString(failed))

(***************************************************************************)
(* qozs_to_geojson_bulk.py                                                 *)
(***************************************************************************)
ShapeFile == "cb_2022_us_tract_500k.shp"
BulkOutput == "opportunity_zones_full.geojson"
SkipRows == 7           \* skiprows=7
PadWidth == 11          \* zfill(11)

\* the digits of int(text): the text without its leading zeros
RECURSIVE ParseInt(_)
ParseInt(digits) ==
    IF Len(digits) > 1 /\ Head(digits) = 0 THEN ParseInt(Tail(digits)) ELSE digits

\* (mutant) the codes are left as they are
ZfillNone(str, width) == str

\* str.zfill(width)
Zfill(str, width) ==
    IF Len(str) >= width THEN str
    ELSE [n \in 1..(width - Len(str)) |-> 0] \o str

\* pd.read_csv(csv_path, skiprows=7, names=colnames): a numeric column is
\* read as integers
ReadCsv(lines) ==
    LET rows == SubSeq(lines, SkipRows + 1, Len(lines)) IN
    [n \in 1..Len(rows) |->
        [STATE |-> rows[n][1], COUNTY |-> rows[n][2], TRACTCE |-> ParseInt(rows[n][3]),
         ZONE_TYPE |-> rows[n][4], YEAR_RANGE |-> rows[n][5]]]

\* qozs['TRACTCE'].astype(str).str.zfill(11)
PadTracts(rows) ==
    [n \in 1..Len(rows) |-> [rows[n] EXCEPT !.TRACTCE = Zfill(@, PadWidth)]]

\* the rows of right whose key is that of the left row, joined to it, in order
RECURSIVE MatchesOf(_, _)
MatchesOf(left, right) ==
    IF Len(right) = 0 THEN <<>>
    ELSE (IF left.GEOID = Head(right).TRACTCE THEN << left @@ Head(right) >> ELSE <<>>)
            \o MatchesOf(left, Tail(right))

\* tracts.merge(qozs, left_on='GEOID', right_on='TRACTCE', how='inner')
RECURSIVE Merge(_, _)
Merge(left, right) ==
    IF Len(left) = 0 THEN <<>>
    ELSE MatchesOf(Head(left), right) \o Merge(Tail(left), right)

\* merged.to_file(out_path, driver='GeoJSON'): one feature per row
ToGeoJson(rows) ==
    [type |-> "FeatureCollection",
     features |->
        [n \in 1..Len(rows) |->
            [type |-> "Feature",
             properties |-> [c \in DOMAIN rows[n] \ {"geometry"} |-> rows[n][c]],
             geometry |-> rows[n].geometry]]]

\* the data rows of the zone table of the bulk join
BulkRowKinds == {"alabama_padded", "alabama5", "washington", "puerto_rico"}

BulkRow(kind, n) ==
    IF kind = "alabama5"
    THEN << "Alabama", "Autauga " \o ToString(n), TractALUnpadded,
            "Low-Income Community", "2011-2015" >>
    ELSE CsvRow(kind, n)

BulkKindLists == UNION {[1..n -> BulkRowKinds] : n \in 0..MaxRows}

\* seven heading lines, then the data rows
BulkCsv(list) ==
    [n \in 1..SkipRows |-> CsvRow(IF n % 2 = 1 THEN "title" ELSE "blank", n)]
        \o [n \in 1..Len(list) |-> BulkRow(list[n], n)]

GeoIds == {TractAL, TractWA, TractAK}

\* tract tables: the GEOID is the key of the table, no two rows share it
TractLists ==
    {t \in UNION {[1..n -> GeoIds] : n \in 0..MaxTracts} :
        \A a, b \in 1..Len(t) : a # b => t[a] # t[b]}

TractTable(list) ==
    [n \in 1..Len(list) |->
        [GEOID |-> list[n], NAME |-> "Tract " \o ToString(n),
         geometry |-> [type |-> "Polygon", coordinates |-> PolygonCoords(n)]]]

InitBulk ==
    /\ pc = "bulk_read_csv"
    /\ \/ files = NoFiles
       \/ \E list \in BulkKindLists :
            files = WriteFile(NoFiles, QozsCsv, BulkCsv(list))
       \/ \E list \in BulkKindLists, tl \in TractLists :
            files = WriteFile(WriteFile(NoFiles, QozsCsv, BulkCsv(list)),
                              ShapeFile, TractTable(tl))
    /\ console = <<>>
    /\ exit_status = NotExited
    /\ geojson = None
    /\ new_features = <<>>
    /\ new_geojson = None
    /\ idx = 1
    /\ qozs = <<>>
    /\ features = <<>>
    /\ success_count = 0
    /\ tracts = <<>>
    /\ merged = <<>>
    /\ gdp_growth = None
    /\ employment_rate = None
    /\ countries = <<>>

\* qozs = pd.read_csv(...)
BulkReadCsv ==
    /\ pc = "bulk_read_csv"
    /\ IF QozsCsv \in DOMAIN files
       THEN /\ qozs' = ReadCsv(files[QozsCsv])
            /\ pc' = "bulk_pad"
            /\ UNCHANGED <<console, exit_status>>
       ELSE /\ qozs' = qozs
            /\ console' = console \o <<"Traceback: FileNotFoundError">>
            /\ pc' = "exit"
            /\ exit_status' = 1
    /\ UNCHANGED <<files, idx, features, success_count, tracts, merged>>
    /\ UNCHANGED docVars
    /\ UNCHANGED econVars

\* qozs['TRACTCE'] = qozs['TRACTCE'].astype(str).str.zfill(11)
BulkPad ==
    /\ pc = "bulk_pad"
    /\ qozs' = PadTracts(qozs)
    /\ pc' = "bulk_read_tracts"
    /\ UNCHANGED <<files, console, exit_status, idx, features, success_count,
                   tracts, merged>>
    /\ UNCHANGED docVars
    /\ UNCHANGED econVars

\* tracts = gpd.read_file(...); tracts['GEOID'] = tracts['GEOID'].astype(str)
BulkReadTracts ==
    /\ pc = "bulk_read_tracts"
    /\ IF ShapeFile \in DOMAIN files
       THEN /\ tracts' = files[ShapeFile]
            /\ pc' = "bulk_merge"
            /\ UNCHANGED <<console, exit_status>>
       ELSE /\ tracts' = tracts
            /\ console' = console \o <<"Traceback: DriverError">>
            /\ pc' = "exit"
            /\ exit_status' = 1
    /\ UNCHANGED <<files, idx, qozs, features, success_count, merged>>
    /\ UNCHANGED docVars
    /\ UNCHANGED econVars

\* merged = tracts.merge(qozs, ...)
BulkMerge ==
    /\ pc = "bulk_merge"
    /\ merged' = Merge(tracts, qozs)
    /\ pc' = "bulk_write"
    /\ UNCHANGED <<files, console, exit_status, idx, qozs, features, success_count,
                   tracts>>
    /\ UNCHANGED docVars
    /\ UNCHANGED econVars

\* merged.to_file(...); the two prints; the script ends
BulkWrite ==
    /\ pc = "bulk_write"
    /\ files' = WriteFile(files, BulkOutput, ToGeoJson(merged))
    /\ console' = console \o << "created_" \o ToString(Len(merged)), "saved" >>
    /\ pc' = "exit"
    /\ exit_status' = 0
    /\ UNCHANGED <<idx, qozs, features, success_count, tracts, merged>>
    /\ UNCHANGED docVars
    /\ UNCHANGED econVars

NextBulk ==
    \/ BulkReadCsv
    \/ BulkPad
    \/ BulkReadTracts
    \/ BulkMerge
    \/ BulkWrite

SpecBulk == InitBulk /\ [][NextBulk]_vars

(***************************************************************************)
(* Properties of qozs_to_geojson_bulk.py                                   *)
(***************************************************************************)
\* the rows of the zone table, as written in the file
ZoneRows == SubSeq(files[QozsCsv], 8, Len(files[QozsCsv]))

\* a tract code with zeros put in front of it until it has 11 digits
RECURSIVE PaddedCode(_)
PaddedCode(code) == IF Len(code) < 11 THEN PaddedCode(<<0>> \o code) ELSE code

\* the row's padded code is the identifier of a tract of the boundary table
HasTract(row) ==
    \E t \in 1..Len(files[ShapeFile]) : files[ShapeFile][t].GEOID = PaddedCode(row[3])

\* the output features made from the row (its county names it)
FeaturesOf(row) ==
    {m \in 1..Len(files[BulkOutput].features) :
        /\ files[BulkOutput].features[m].properties.COUNTY = row[2]
        /\ files[BulkOutput].features[m].properties.GEOID = PaddedCode(row[3])}

\* C10: a row of the zone table whose tract code, zero-padded to 11 digits,
\* is the identifier of a tract has exactly one feature in the output, any
\* other row has none, and the output holds as many features as there are
\* matching rows.
C10_JoinCompleteness ==
    BulkOutput \in DOMAIN files =>
        /\ \A n \in 1..Len(ZoneRows) :
            Cardinality(FeaturesOf(ZoneRows[n])) = IF HasTract(ZoneRows[n]) THEN 1 ELSE 0
        /\ Len(files[BulkOutput].features)
                = Cardinality({n \in 1..Len(ZoneRows) : HasTract(ZoneRows[n])})

\* the join kept a row whose code had to be padded and left out a row
\* without a tract
C10_Witness ==
    /\ BulkOutput \in DOMAIN files
    /\ \E n, k \in 1..Len(ZoneRows) :
        /\ Len(ZoneRows[n][3]) < 11
        /\ HasTract(ZoneRows[n])
        /\ Cardinality(FeaturesOf(ZoneRows[n])) = 1
        /\ ~HasTract(ZoneRows[k])

(***************************************************************************)
(* generate_economic_data.py: download two World Bank indicator tables,    *)
(* take the latest value of each country, enumerate the countries of the   *)
(* map and write one CSV row per country.  The CSV is modelled by its      *)
(* rows, each row the sequence of its fields.                              *)
(***************************************************************************)
EconomicCsv == "economic_data_global.csv"

\* range(2022, 1999, -1)
FirstYear == 2022
LastYear == 2000

\* str.strip().lower() on the names of the model
LowerStrip(name) ==
    CASE name = "France" -> "france"
      [] name = "Chad" -> "chad"
      [] name = " Peru " -> "peru"
      [] name = "Fiji" -> "fiji"
      [] name = "World" -> "world"
      [] name = "High income" -> "high income"
      [] OTHER -> name

\* the aggregates that are not countries
Aggregates ==
    {"world", "europe & central asia", "east asia & pacific", "sub-saharan africa",
     "latin america & caribbean", "middle east & north africa", "north america",
     "south asia", "european union"}

\* 'income' in country, on the names of the model
ContainsIncome(country) == country \in {"high income", "low income", "middle income"}

\* if not country or 'income' in country or country in [...]: continue
RowSkipped(country) ==
    country = "" \/ ContainsIncome(country) \/ country \in Aggregates

\* the year columns of a row of an indicator table
IndicatorValues(name) ==
    CASE name = "France" -> (2022 :> "2.5") @@ (2021 :> "6.8")
      [] name = "Chad" -> (2022 :> "..") @@ (2021 :> "-1.2")
      [] name = " Peru " -> (2022 :> "") @@ (1999 :> "4.0")
      [] name = "World" -> (2022 :> "3.1")
      [] name = "High income" -> (2022 :> "2.0")
      [] OTHER -> (2022 :> "")

IndicatorNames == {"France", "Chad", " Peru ", "World", "High income", ""}

IndicatorRow(name) == [country |-> name, values |-> IndicatorValues(name)]

\* val = row.get(str(year), ''); if val and val != '..'
HasValue(row, year) == Get(row.values, year, "") \notin {"", ".."}

\* for year in range(2022, 1999, -1): ... break -- the latest year with a value
LatestYears(row) == {y \in LastYear..FirstYear : HasValue(row, y)}

LatestValue(row) ==
    LET y == CHOOSE y \in LatestYears(row) : \A z \in LatestYears(row) : z <= y
    IN row.values[y]

\* for row in reader: ... data[country] = str(val)
RECURSIVE ExtractRows(_, _)
ExtractRows(rows, data) ==
    IF rows = <<>> THEN data
    ELSE LET row == Head(rows)
             country == LowerStrip(row.country)
         IN ExtractRows(Tail(rows),
                IF RowSkipped(country) \/ LatestYears(row) = {}
                THEN data
                ELSE With(data, country, LatestValue(row)))

\* the answers of the indicator service
IndicatorTables ==
    UNION {[1..n -> {IndicatorRow(name) : name \in IndicatorNames}] :
               n \in 0..MaxIndicatorRows}

Archives ==
    {[kind |-> k, rows |-> <<>>] :
        k \in {"unreachable", "not_zip", "no_csv", "no_header"}}
      \cup {[kind |-> "table", rows |-> t] : t \in IndicatorTables}

\* requests.get, zipfile.ZipFile and the search of the header row raise
DownloadRaises(archive) == archive.kind \in {"unreachable", "not_zip", "no_header"}

DownloadError(archive) ==
    CASE archive.kind = "unreachable" -> "Traceback: ConnectionError"
      [] archive.kind = "not_zip" -> "Traceback: BadZipFile"
      [] OTHER -> "Traceback: Exception"

\* data = {}
NoData == [c \in {} |-> ""]

\* the value of download_and_extract(url) when it returns
download_and_extract(archive) ==
    IF archive.kind = "no_csv" THEN NoData
    ELSE ExtractRows(archive.rows, NoData)

\* the answers of the map service: the 'name' properties of the features
MapNames == {"France", "Chad", " Peru ", "Fiji"}

CountryMaps ==
    {[kind |-> k, names |-> <<>>] : k \in {"unreachable", "not_json", "no_name"}}
      \cup {[kind |-> "ok", names |-> l] :
               l \in UNION {[1..n -> MapNames] : n \in 0..MaxCountries}}

MapRaises(map) == map.kind # "ok"

MapError(map) ==
    CASE map.kind = "unreachable" -> "Traceback: ConnectionError"
      [] map.kind = "not_json" -> "Traceback: JSONDecodeError"
      [] OTHER -> "Traceback: KeyError"

\* [f['properties']['name'].strip().lower() for f in geojson['features']]
CountryNames(map) == [n \in 1..Len(map.names) |-> LowerStrip(map.names[n])]

\* datetime.today().strftime('%Y-%m-%d')
today == "2024-06-01"

null_if_missing(val) == IF val # "" THEN val ELSE "NULL"

fieldnames ==
    << "region", "gdp_growth", "employment_rate", "property_appreciation",
       "builder_accessibility", "international_accessibility", "last_updated" >>

\* the dictionary handed to writer.writerow
RowDict(country) ==
    ("region" :> country)
      @@ ("gdp_growth" :> null_if_missing(Get(gdp_growth, country, "")))
      @@ ("employment_rate" :> null_if_missing(Get(employment_rate, country, "")))
      @@ ("property_appreciation" :> "")
      @@ ("builder_accessibility" :> "")
      @@ ("international_accessibility" :> "")
      @@ ("last_updated" :> today)

\* csv.DictWriter: the fields of a row, in the order of fieldnames
DictWriterRow(d) == [n \in 1..Len(fieldnames) |-> d[fieldnames[n]]]

InitEconomic ==
    /\ pc = "econ_gdp"
    /\ files = NoFiles
    /\ console = <<>>
    /\ exit_status = NotExited
    /\ geojson = None
    /\ new_features = <<>>
    /\ new_geojson = None
    /\ idx = 1
    /\ qozs = <<>>
    /\ features = <<>>
    /\ success_count = 0
    /\ tracts = <<>>
    /\ merged = <<>>
    /\ gdp_growth = None
    /\ employment_rate = None
    /\ countries = <<>>

\* gdp_growth = download_and_extract(GDP_URL)
EconDownloadGdp ==
    /\ pc = "econ_gdp"
    /\ \E archive \in Archives :
         IF DownloadRaises(archive)
         THEN /\ console' = console \o <<DownloadError(archive)>>
              /\ pc' = "exit"
              /\ exit_status' = 1
              /\ gdp_growth' = gdp_growth
         ELSE /\ gdp_growth' = download_and_extract(archive)
              /\ pc' = "econ_employment"
              /\ UNCHANGED <<console, exit_status>>
    /\ UNCHANGED <<files, idx, employment_rate, countries>>
    /\ UNCHANGED docVars
    /\ UNCHANGED tableVars

\* employment_rate = download_and_extract(EMPLOYMENT_URL)
EconDownloadEmployment ==
    /\ pc = "econ_employment"
    /\ \E archive \in Archives :
         IF DownloadRaises(archive)
         THEN /\ console' = console \o <<DownloadError(archive)>>
              /\ pc' = "exit"
              /\ exit_status' = 1
              /\ employment_rate' = employment_rate
         ELSE /\ employment_rate' = download_and_extract(archive)
              /\ pc' = "econ_countries"
              /\ UNCHANGED <<console, exit_status>>
    /\ UNCHANGED <<files, idx, gdp_growth, countries>>
    /\ UNCHANGED docVars
    /\ UNCHANGED tableVars

\* geojson = requests.get(geojson_url).json(); countries = [...]
EconCountries ==
    /\ pc = "econ_countries"
    /\ \E map \in CountryMaps :
         IF MapRaises(map)
         THEN /\ console' = console \o <<MapError(map)>>
              /\ pc' = "exit"
              /\ exit_status' = 1
              /\ countries' = countries
         ELSE /\ countries' = CountryNames(map)
              /\ pc' = "econ_open"
              /\ UNCHANGED <<console, exit_status>>
    /\ UNCHANGED <<files, idx, gdp_growth, employment_rate>>
    /\ UNCHANGED docVars
    /\ UNCHANGED tableVars

\* with open(...) as csvfile: ... writer.writeheader()
EconWriteHeader ==
    /\ pc = "econ_open"
    /\ files' = WriteFile(files, EconomicCsv, <<fieldnames>>)
    /\ idx' = 1
    /\ pc' = "econ_rows"
    /\ UNCHANGED <<console, exit_status>>
    /\ UNCHANGED econVars
    /\ UNCHANGED docVars
    /\ UNCHANGED tableVars

\* for country in countries: writer.writerow({...})
EconWriteRow ==
    /\ pc = "econ_rows"
    /\ idx <= Len(countries)
    /\ files' = WriteFile(files, EconomicCsv,
                   Append(files[EconomicCsv], DictWriterRow(RowDict(countries[idx]))))
    /\ idx' = idx + 1
    /\ UNCHANGED <<pc, console, exit_status>>
    /\ UNCHANGED econVars
    /\ UNCHANGED docVars
    /\ UNCHANGED tableVars

\* print('CSV generated: economic_data_global.csv')
EconDone ==
    /\ pc = "econ_rows"
    /\ idx > Len(countries)
    /\ console' = console \o <<"CSV generated: economic_data_global.csv">>
    /\ pc' = "exit"
    /\ exit_status' = 0
    /\ UNCHANGED <<files, idx>>
    /\ UNCHANGED econVars
    /\ UNCHANGED docVars
    /\ UNCHANGED tableVars

NextEconomic ==
    \/ EconDownloadGdp
    \/ EconDownloadEmployment
    \/ EconCountries
    \/ EconWriteHeader
    \/ EconWriteRow
    \/ EconDone

SpecEconomic == InitEconomic /\ [][NextEconomic]_vars

(***************************************************************************)
(* Properties of generate_economic_data.py.                                *)
(***************************************************************************)
\* the data rows written so far
EconomicRows == Tail(files[EconomicCsv])

\* C11: the file starts with the seven column names; every data row has the
\* seven fields in that order, the n-th row being that of the n-th enumerated
\* country; each of the five numeric fields (gdp_growth, employment_rate,
\* property_appreciation, builder_accessibility, international_accessibility)
\* holds a value or the marker "NULL", never the empty field; and when the
\* script has finished there is one row per country.
C11_NullMarkerForMissing ==
    EconomicCsv \in DOMAIN files =>
        /\ Head(files[EconomicCsv]) = fieldnames
        /\ Len(EconomicRows) <= Len(countries)
        /\ exit_status = 0 => Len(EconomicRows) = Len(countries)
        /\ \A n \in 1..Len(EconomicRows) :
              /\ Len(EconomicRows[n]) = 7
              /\ EconomicRows[n][1] = countries[n]
              /\ EconomicRows[n][7] = today
              /\ \A k \in 2..6 : EconomicRows[n][k] # ""

====
